---- MODULE Spec2Model ----
(***************************************************************************)
(* State-machine model of the SQL agent service:                           *)
(*   - app/backend/database.py  DatabaseManager (schema inspector, query   *)
(*     executor),                                                          *)
(*   - app/backend/agent.py     the three tools and the agent graph,       *)
(*   - app/backend/main.py      the HTTP handlers.                         *)
(*                                                                         *)
(* Text is modelled as a sequence of tokens (strings).  A python string    *)
(* that is built by concatenation is the concatenation of the token        *)
(* sequences of its parts, so prefixes, joins and splits are computed and  *)
(* not assumed.  Table names and the table_names argument of get_schema    *)
(* are sequences of one-character tokens.                                  *)
(***************************************************************************)
EXTENDS Integers, Sequences, FiniteSets, TLC

VARIABLES
    pc,         \* agent graph: the node that runs next ("idle" outside a run)
    question,   \* the query argument of the current call of SQLAgent.run
    messages,   \* agent graph: State["messages"], the transcript
    error,      \* agent graph: the exception handed to the ToolNode fallback
    result,     \* what SQLAgent.run returned
    llm_calls,  \* number of completion calls made in this run
    window,     \* 0: the whole transcript is kept; n > 0: only its last n messages
    db_path,    \* DatabaseManager.db_path is set
    engine,     \* DatabaseManager.engine is set
    disk,       \* content of <temp_dir>/uploaded.db
    sql_agent,  \* main.sql_agent: "none" or the api key the agent was built with
    uploaded,   \* history: the content of the last upload answered with success
    env_key,    \* value of the GROQ_API_KEY environment variable ("" when unset)
    request,    \* the last HTTP request
    response,   \* the last HTTP response
    tool_in,    \* the last direct tool invocation: its input
    tool_out    \* the last direct tool invocation: its output

vars == <<pc, question, messages, error, result, llm_calls, window,
          db_path, engine, disk, sql_agent, uploaded, env_key, request, response,
          tool_in, tool_out>>

agentVars   == <<pc, question, messages, error, result, llm_calls, window>>
serviceVars == <<db_path, engine, disk, sql_agent, uploaded, env_key, request, response>>
toolVars    == <<tool_in, tool_out>>

(***************************************************************************)
(* Bounds of the model.                                                    *)
(***************************************************************************)
MaxModelCalls == 4   \* completion calls explored per run
MaxNames      == 2   \* names in a table_names argument of a direct invocation
Window        == 3   \* messages kept when the transcript is windowed

(***************************************************************************)
(* Program constants.                                                      *)
(***************************************************************************)
SampleLimit == 15    \* database.py: SELECT * FROM {table} LIMIT 15
HeaderRows  == 3     \* agent.py: "3 rows from table:"

(***************************************************************************)
(* Generic helpers on sequences.                                           *)
(***************************************************************************)
Last(s) == s[Len(s)]

Min(a, b) == IF a < b THEN a ELSE b

RECURSIVE Flatten(_)
Flatten(ss) == IF ss = <<>> THEN <<>> ELSE Head(ss) \o Flatten(Tail(ss))

\* python: sep.join(parts), each part a token sequence
RECURSIVE Join(_, _)
Join(parts, sep) ==
    IF parts = <<>> THEN <<>>
    ELSE IF Len(parts) = 1 THEN Head(parts)
    ELSE Head(parts) \o sep \o Join(Tail(parts), sep)

\* python: s.split(",")
RECURSIVE SplitAcc(_, _, _)
SplitAcc(s, cur, acc) ==
    IF s = <<>> THEN Append(acc, cur)
    ELSE IF Head(s) = "," THEN SplitAcc(Tail(s), <<>>, Append(acc, cur))
    ELSE SplitAcc(Tail(s), Append(cur, Head(s)), acc)

Split(s) == SplitAcc(s, <<>>, <<>>)

\* python: s.strip()
RECURSIVE LStrip(_)
LStrip(s) == IF s # <<>> /\ Head(s) = " " THEN LStrip(Tail(s)) ELSE s

RECURSIVE RStrip(_)
RStrip(s) ==
    IF s # <<>> /\ s[Len(s)] = " " THEN RStrip(SubSeq(s, 1, Len(s) - 1)) ELSE s

Strip(s) == RStrip(LStrip(s))

\* python: s.startswith(prefix)
StartsWith(s, prefix) ==
    Len(s) >= Len(prefix) /\ SubSeq(s, 1, Len(prefix)) = prefix

(***************************************************************************)
(* The databases a user may upload.  A value of a cell is <<kind, text>>.  *)
(***************************************************************************)
IntVal(d)  == <<"int", d>>
TextVal(s) == <<"text", s>>
NullVal    == <<"null", "">>

\* python: str(val)
Str(val) == IF val[1] = "null" THEN "None" ELSE val[2]

Digits == <<"1", "2", "3", "4", "5", "6", "7", "8", "9", "10", "11", "12",
            "13", "14", "15", "16", "17", "18", "19", "20">>

\* the i-th row of a table with columns id, name
RowOf(i) == <<IntVal(Digits[i]), IF i % 2 = 0 THEN NullVal ELSE TextVal("x")>>

TableOf(n) ==
    [columns |-> << [name |-> "id", type |-> "INTEGER"],
                    [name |-> "name", type |-> "TEXT"] >>,
     rows    |-> [i \in 1..n |-> RowOf(i)]]

TA == <<"a">>
TB == <<"b">>
TAB == <<"a", "b">>
TZ == <<"z">>

\* file contents: a database is a function from its table names to its tables
Databases ==
    [db1 |-> (TA :> TableOf(2)) @@ (TB :> TableOf(0)),
     db2 |-> (TA :> TableOf(1)) @@ (TAB :> TableOf(4)),
     db3 |-> (TB :> TableOf(16))]

DbNames == {"db1", "db2", "db3"}

\* sqlite can open the file and read its catalogue
Readable(d) == d \in DbNames

\* inspector.get_table_names(): sorted by name
TableNames(d) ==
    IF d = "db1" THEN <<TA, TB>>
    ELSE IF d = "db2" THEN <<TA, TAB>>
    ELSE <<TB>>

(***************************************************************************)
(* database.py: DatabaseManager.                                           *)
(***************************************************************************)
\* dict(row) of a sqlite3.Row: the (column name, value) pairs in column order
DictRow(columns, row) == [i \in 1..Len(columns) |-> <<columns[i].name, row[i]>>]

Keys(dictrow)   == [i \in 1..Len(dictrow) |-> dictrow[i][1]]
Values(dictrow) == [i \in 1..Len(dictrow) |-> dictrow[i][2]]

\* cursor.execute("SELECT * FROM t LIMIT n").fetchall() as dicts
SelectRows(table, n) ==
    [i \in 1..Min(n, Len(table.rows)) |-> DictRow(table.columns, table.rows[i])]

\* DatabaseManager.get_schema_info
get_schema_info ==
    IF ~engine THEN [status |-> "error", message |-> <<"No database connected">>]
    ELSE IF ~Readable(disk)
    THEN [status |-> "error", message |-> <<"file is not a database">>]
    ELSE [status |-> "success",
          schema |-> [t \in DOMAIN Databases[disk] |->
                        [columns     |-> Databases[disk][t].columns,
                         sample_data |-> SelectRows(Databases[disk][t], SampleLimit)]]]

\* The SQL texts of the model: <<"SELECT * FROM ">> \o t, or anything else
\* (which sqlite rejects).
SelectAll(t) == <<"SELECT * FROM ">> \o t

Queries == {SelectAll(TA), SelectAll(TB), SelectAll(TZ), <<"SELEC">>}

\* sqlite3: cursor.execute(query); raises are reported as ["raise", message]
SqliteExecute(query) ==
    IF ~Readable(disk) THEN <<"raise", <<"file is not a database">>>>
    ELSE IF ~StartsWith(query, <<"SELECT * FROM ">>)
    THEN <<"raise", <<"near \"">> \o query \o <<"\": syntax error">>>>
    ELSE LET t == Tail(query) IN
         IF t \notin DOMAIN Databases[disk]
         THEN <<"raise", <<"no such table: ">> \o t>>
         ELSE <<"rows", SelectRows(Databases[disk][t], Len(Databases[disk][t].rows))>>

\* execute_query without its except clause: a raise of sqlite passes through
execute_query_uncaught(query) ==
    IF ~db_path
    THEN <<"return", [status |-> "error", message |-> <<"No database connected">>]>>
    ELSE LET r == SqliteExecute(query) IN
         IF r[1] = "raise" THEN r
         ELSE <<"return", [status |-> "success", results |-> r[2]]>>

\* DatabaseManager.execute_query.  The outcome of the call is <<"return", value>>
\* or <<"raise", exception>>; the except clause turns every raise of sqlite into
\* a returned error record.
execute_query(query) ==
    IF ~db_path
    THEN <<"return", [status |-> "error", message |-> <<"No database connected">>]>>
    ELSE LET r == SqliteExecute(query) IN
         IF r[1] = "raise" THEN <<"return", [status |-> "error", message |-> r[2]]>>
         ELSE <<"return", [status |-> "success", results |-> r[2]]>>

(***************************************************************************)
(* agent.py: the tools of SQLAgent._create_tools.                          *)
(***************************************************************************)
\* "\t".join(cells) + "\n"
TabLine(cells) == Join([i \in 1..Len(cells) |-> <<cells[i]>>], <<"\t">>) \o <<"\n">>

StrCells(vals) == [i \in 1..Len(vals) |-> Str(vals[i])]

\* list_tables
ListTables ==
    LET schema_info == get_schema_info IN
    IF schema_info.status = "success"
    THEN Join(TableNames(disk), <<", ">>)
    ELSE <<"Error:", " ">> \o schema_info.message

ColumnLine(col) == <<"\t", col.name, " ", col.type, ", \n">>

\* the text get_schema emits for one name of its list
SchemaBlock(schema, table) ==
    IF table \in DOMAIN schema
    THEN LET table_info == schema[table] IN
         <<"\nCREATE TABLE ">> \o table \o <<" (\n">>
         \o Flatten([i \in 1..Len(table_info.columns) |->
                        ColumnLine(table_info.columns[i])])
         \o <<");\n">>
         \o <<"\n/*\n", Digits[HeaderRows], " rows from table:\n">>
         \o (IF table_info.sample_data # <<>>
             THEN TabLine(Keys(table_info.sample_data[1]))
                  \o Flatten([i \in 1..Len(table_info.sample_data) |->
                        TabLine(StrCells(Values(table_info.sample_data[i])))])
             ELSE <<>>)
         \o <<"*/\n">>
    ELSE <<"Table '">> \o table \o <<"' not found.\n">>

\* get_schema giving up at the first name that is no table
GetSchemaAbortOnUnknown(table_names) ==
    LET parts       == Split(table_names)
        tables      == [i \in 1..Len(parts) |-> Strip(parts[i])]
        schema_info == get_schema_info
    IN  IF schema_info.status # "success"
        THEN <<"Error:", " ">> \o schema_info.message
        ELSE IF \E i \in 1..Len(tables) : tables[i] \notin DOMAIN schema_info.schema
        THEN <<"Error:", " ", "table not found">>
        ELSE Flatten([i \in 1..Len(tables) |-> SchemaBlock(schema_info.schema, tables[i])])

\* get_schema(table_names)
GetSchema(table_names) ==
    LET parts       == Split(table_names)
        tables      == [i \in 1..Len(parts) |-> Strip(parts[i])]
        schema_info == get_schema_info
    IN  IF schema_info.status # "success"
        THEN <<"Error:", " ">> \o schema_info.message
        ELSE Flatten([i \in 1..Len(tables) |-> SchemaBlock(schema_info.schema, tables[i])])

\* the text db_query_tool makes of the executor's result
QueryResultText(res) ==
    IF res.status # "success"
    THEN <<"Error:", " ">> \o res.message
         \o <<". Please rewrite your query and try again.">>
    ELSE IF res.results = <<>> THEN <<"The query returned no results.">>
    ELSE TabLine(Keys(res.results[1]))
         \o Flatten([i \in 1..Len(res.results) |->
                        TabLine(StrCells(Values(res.results[i])))])

\* db_query_tool(query): the outcome of the call; a raise of execute_query
\* would pass through
DbQueryTool(query) ==
    LET call == execute_query(query) IN
    IF call[1] = "raise" THEN call ELSE <<"return", QueryResultText(call[2])>>

(***************************************************************************)
(* agent.py: messages of the transcript.  A tool call is                   *)
(* [name, args, id]; args is the value of the tool's single argument       *)
(* (final_answer, table_names, query; <<>> for list_tables).  Ids are      *)
(* pairs: <<0, 1>> stands for "tool_init", <<k, j>> for the j-th tool      *)
(* call of the k-th completion.                                            *)
(***************************************************************************)
NoId     == <<0, 0>>
ToolInit == <<0, 1>>
NoError  == "None"

HumanMessage(content) ==
    [role |-> "human", content |-> content, tool_calls |-> <<>>, tool_call_id |-> NoId]

AIMessage(content, tool_calls) ==
    [role |-> "ai", content |-> content, tool_calls |-> tool_calls, tool_call_id |-> NoId]

ToolMessage(content, tool_call_id) ==
    [role |-> "tool", content |-> content, tool_calls |-> <<>>,
     tool_call_id |-> tool_call_id]

\* the add_messages reducer of State: new messages are appended
add_messages(left, right) ==
    LET all == left \o right IN
    IF window = 0 \/ Len(all) <= window THEN all
    ELSE SubSeq(all, Len(all) - window + 1, Len(all))

\* first_tool_call
first_tool_call ==
    <<AIMessage(<<"">>, << [name |-> "list_tables", args |-> <<>>, id |-> ToolInit] >>)>>

\* handle_tool_error answering the first tool call only
handle_tool_error_first(err) ==
    LET tool_calls == Last(messages).tool_calls IN
    <<ToolMessage(<<"Error:", " ", err, "\n please fix your mistakes.">>,
                  tool_calls[1].id)>>

\* handle_tool_error: one error message per tool call of the last message
handle_tool_error(err) ==
    LET tool_calls == Last(messages).tool_calls IN
    [i \in 1..Len(tool_calls) |->
        ToolMessage(<<"Error:", " ", err, "\n please fix your mistakes.">>,
                    tool_calls[i].id)]

\* the exceptions a tool invocation may raise, as their repr
Faults == {"ValidationError('1 validation error')", "OperationalError('disk I/O error')"}

\* a tool of the model run on the arguments of a call
RunTool(tc) ==
    IF tc.name = "list_tables" THEN ListTables
    ELSE IF tc.name = "get_schema" THEN GetSchema(tc.args)
    ELSE DbQueryTool(tc.args)[2]

\* ToolNode(tools) on the tool calls of the last message, no tool raising.  A
\* call that names no tool of the node is answered by the node itself.
ToolNodeMessages(tools, tool_calls) ==
    [i \in 1..Len(tool_calls) |->
        IF tool_calls[i].name \in tools
        THEN ToolMessage(RunTool(tool_calls[i]), tool_calls[i].id)
        ELSE ToolMessage(<<"Error:", " ", tool_calls[i].name, " is not a valid tool">>,
                         tool_calls[i].id)]

\* query_gen_node without its check for wrong tool calls
NoWrongToolMessages(tool_calls) == <<>>

\* query_gen_node: the corrective messages for wrong tool calls
RECURSIVE WrongToolMessages(_)
WrongToolMessages(tool_calls) ==
    IF tool_calls = <<>> THEN <<>>
    ELSE LET tc == Head(tool_calls) IN
         (IF tc.name # "SubmitFinalAnswer"
          THEN <<ToolMessage(<<"Error:", " The wrong tool was called: ", tc.name,
                               ". Please fix your mistakes. Remember to only call SubmitFinalAnswer to submit the final answer. Generated queries should be outputted WITHOUT a tool call.">>,
                             tc.id)>>
          ELSE <<>>)
         \o WrongToolMessages(Tail(tool_calls))

query_gen_node(message) == <<message>> \o WrongToolMessages(message.tool_calls)

\* getattr(m, "tool_calls", None) is truthy
HasToolCalls(m) == m.role = "ai" /\ m.tool_calls # <<>>

HasFinalAnswer(m) ==
    HasToolCalls(m) /\ \E i \in 1..Len(m.tool_calls) : m.tool_calls[i].name = "SubmitFinalAnswer"

\* should_continue looking for SubmitFinalAnswer in every message
should_continue_any(msgs) ==
    LET last_message == Last(msgs) IN
    IF \E i \in 1..Len(msgs) : HasFinalAnswer(msgs[i]) THEN "END"
    ELSE IF StartsWith(last_message.content, <<"Error:">>) THEN "query_gen"
    ELSE "correct_query"

\* should_continue testing the "Error:" prefix before SubmitFinalAnswer
should_continue_error_first(msgs) ==
    LET last_message == Last(msgs) IN
    IF StartsWith(last_message.content, <<"Error:">>) THEN "query_gen"
    ELSE IF HasFinalAnswer(last_message) THEN "END"
    ELSE "correct_query"

\* should_continue sending a generated query straight to execute_query
should_continue_skip_check(msgs) ==
    LET last_message == Last(msgs) IN
    IF HasFinalAnswer(last_message) THEN "END"
    ELSE IF StartsWith(last_message.content, <<"Error:">>) THEN "query_gen"
    ELSE "execute_query"

\* should_continue
should_continue(msgs) ==
    LET last_message == Last(msgs) IN
    IF HasFinalAnswer(last_message) THEN "END"
    ELSE IF StartsWith(last_message.content, <<"Error:">>) THEN "query_gen"
    ELSE "correct_query"

\* run scanning the transcript from its start instead of reversed
RECURSIVE ExtractFirstAnswer(_)
ExtractFirstAnswer(msgs) ==
    IF msgs = <<>>
    THEN [status |-> "error", answer |-> <<"Failed to generate an answer.">>]
    ELSE LET message == Head(msgs)
             found   == {i \in 1..Len(message.tool_calls) :
                            message.tool_calls[i].name = "SubmitFinalAnswer"}
         IN  IF HasToolCalls(message) /\ found # {}
             THEN [status |-> "success",
                   answer |-> message.tool_calls[CHOOSE i \in found :
                                                   \A j \in found : i <= j].args]
             ELSE ExtractFirstAnswer(Tail(msgs))

\* SQLAgent.run, after the graph ended: the answer of the first SubmitFinalAnswer
\* call of the last message that has one
RECURSIVE ExtractAnswer(_)
ExtractAnswer(msgs) ==
    IF msgs = <<>>
    THEN [status |-> "error", answer |-> <<"Failed to generate an answer.">>]
    ELSE LET message == Last(msgs)
             found   == {i \in 1..Len(message.tool_calls) :
                            message.tool_calls[i].name = "SubmitFinalAnswer"}
         IN  IF HasToolCalls(message) /\ found # {}
             THEN [status |-> "success",
                   answer |-> message.tool_calls[CHOOSE i \in found :
                                                   \A j \in found : i <= j].args]
             ELSE ExtractAnswer(SubSeq(msgs, 1, Len(msgs) - 1))

(***************************************************************************)
(* The completion service: what it may reply at each step.  A reply is     *)
(* <<content, calls>>; the calls get their ids when the reply is received. *)
(***************************************************************************)
Call(name, args) == [name |-> name, args |-> args]

FinalAnswer(a) == Call("SubmitFinalAnswer", <<a>>)

Answers == {"A1", "A2"}

\* model_get_schema: the get_schema tool is offered
SchemaReplies ==
    { <<<<"">>, <<Call("get_schema", <<"a", ",", " ", "z">>)>>>>,
      <<<<"">>, <<Call("get_schema", TB), Call("get_schema", TA)>>>>,
      <<<<"I need table a">>, <<>>>>,
      <<<<"">>, <<FinalAnswer("A1")>>>> }

\* query_gen: SubmitFinalAnswer is offered
GenReplies ==
    { <<SelectAll(TA), <<>>>>,
      <<<<"Error:", " I cannot answer">>, <<>>>>,
      <<<<"">>, <<FinalAnswer("A1")>>>>,
      <<<<"">>, <<FinalAnswer("A2")>>>>,
      <<<<"">>, <<Call("list_tables", <<>>)>>>>,
      <<<<"">>, <<FinalAnswer("A1"), Call("db_query_tool", SelectAll(TA))>>>>,
      <<SelectAll(TA), <<Call("db_query_tool", SelectAll(TA)), FinalAnswer("A2")>>>>,
      <<<<"">>, <<FinalAnswer("A1"), FinalAnswer("A2")>>>>,
      <<<<"Error:", " see the answer">>, <<FinalAnswer("A1")>>>> }

\* correct_query: list_tables, get_schema and db_query_tool are offered
CheckReplies ==
    { <<<<"">>, <<Call("db_query_tool", SelectAll(TA))>>>>,
      <<<<"">>, <<Call("db_query_tool", <<"SELEC">>)>>>>,
      <<SelectAll(TA), <<>>>>,
      <<<<"">>, <<Call("list_tables", <<>>)>>>>,
      <<<<"">>, <<Call("db_query_tool", SelectAll(TB)),
                  Call("db_query_tool", SelectAll(TZ))>>>>,
      <<<<"">>, <<FinalAnswer("A2")>>>> }

\* the AIMessage of a reply received as the k-th completion of the run
Received(reply, k) ==
    AIMessage(reply[1],
              [j \in 1..Len(reply[2]) |->
                  [name |-> reply[2][j].name, args |-> reply[2][j].args, id |-> <<k, j>>]])

CanCall == window > 0 \/ llm_calls < MaxModelCalls

NextCall == IF window = 0 THEN llm_calls + 1 ELSE (llm_calls % MaxModelCalls) + 1

Questions == {<<"How many rows are in a?">>, <<"Is b empty?">>}

(***************************************************************************)
(* agent.py: the graph of _create_agent_graph and SQLAgent.run.            *)
(***************************************************************************)
NoResult == [status |-> "none", answer |-> <<>>]

NoRequest == [endpoint |-> "none", filename |-> <<>>, content |-> "none", api_key |-> ""]

NoResponse == [status_code |-> 0, detail |-> <<>>, body |-> <<>>]

NoTool == [tool |-> "none", arg |-> <<>>, names |-> <<>>]

\* the state that run hands to app.invoke; the graph is compiled without a
\* checkpointer, so nothing of an earlier run is loaded into it
InitialStateResumed(query) == messages \o <<HumanMessage(query)>>

InitialState(query) == <<HumanMessage(query)>>

\* run: self.app.invoke({"messages": [HumanMessage(content=query)]}); the agent
\* that an upload built serves every later call of run
Invoke ==
    /\ pc \in {"start", "returned", "aborted"}
    /\ \E q \in Questions :
          /\ question' = q
          /\ messages' = InitialState(q)
    /\ pc' = "first_tool_call"
    /\ result' = NoResult
    /\ llm_calls' = 0
    /\ UNCHANGED <<error, window, serviceVars, toolVars>>

\* node first_tool_call, edge to list_tables
FirstToolCall ==
    /\ pc = "first_tool_call"
    /\ messages' = add_messages(messages, first_tool_call)
    /\ pc' = "list_tables"
    /\ UNCHANGED <<question, error, result, llm_calls, window, serviceVars, toolVars>>

\* a node made by create_tool_node_with_fallback(tools), and its outgoing edge
ToolNode(node, tools, next) ==
    /\ pc = node
    /\ LET tool_calls == Last(messages).tool_calls IN
       \E outcome \in {NoError} \cup (IF tool_calls # <<>> THEN Faults ELSE {}) :
          /\ error' = outcome
          /\ messages' = add_messages(messages,
                            IF outcome = NoError
                            THEN ToolNodeMessages(tools, tool_calls)
                            ELSE handle_tool_error(outcome))
    /\ pc' = next
    /\ UNCHANGED <<question, result, llm_calls, window, serviceVars, toolVars>>

ListTablesNode == ToolNode("list_tables", {"list_tables"}, "model_get_schema")

\* the get_schema node with its edge drawn back to model_get_schema
GetSchemaNodeRevisit == ToolNode("get_schema", {"get_schema"}, "model_get_schema")

GetSchemaNode == ToolNode("get_schema", {"get_schema"}, "query_gen")

ExecuteQueryNode == ToolNode("execute_query", {"db_query_tool"}, "query_gen")

\* node model_get_schema, edge to get_schema
ModelGetSchema ==
    /\ pc = "model_get_schema"
    /\ CanCall
    /\ \E reply \in SchemaReplies :
          messages' = add_messages(messages, <<Received(reply, NextCall)>>)
    /\ llm_calls' = NextCall
    /\ pc' = "get_schema"
    /\ error' = NoError
    /\ UNCHANGED <<question, result, window, serviceVars, toolVars>>

\* node query_gen and its conditional edge should_continue
QueryGen ==
    /\ pc = "query_gen"
    /\ CanCall
    /\ \E reply \in GenReplies :
          LET new == add_messages(messages, query_gen_node(Received(reply, NextCall)))
              to  == should_continue(new)
          IN  /\ messages' = new
              /\ pc' = IF to = "END" THEN "done" ELSE to
    /\ llm_calls' = NextCall
    /\ error' = NoError
    /\ UNCHANGED <<question, result, window, serviceVars, toolVars>>

\* node correct_query (model_check_query), edge to execute_query
CorrectQuery ==
    /\ pc = "correct_query"
    /\ CanCall
    /\ \E reply \in CheckReplies :
          messages' = add_messages(messages, <<Received(reply, NextCall)>>)
    /\ llm_calls' = NextCall
    /\ pc' = "execute_query"
    /\ error' = NoError
    /\ UNCHANGED <<question, result, window, serviceVars, toolVars>>

\* a completion call raises (provider or network failure): nothing catches it
\* in the graph, so app.invoke and run raise
CompletionRaises ==
    /\ pc \in {"model_get_schema", "query_gen", "correct_query"}
    /\ pc' = "aborted"
    /\ UNCHANGED <<question, messages, error, result, llm_calls, window, serviceVars, toolVars>>

\* run, after app.invoke returned: extract the final answer
Return ==
    /\ pc = "done"
    /\ result' = ExtractAnswer(messages)
    /\ pc' = "returned"
    /\ UNCHANGED <<question, messages, error, llm_calls, window, serviceVars, toolVars>>

AgentNext ==
    \/ Invoke
    \/ FirstToolCall
    \/ ListTablesNode
    \/ ModelGetSchema
    \/ GetSchemaNode
    \/ QueryGen
    \/ CorrectQuery
    \/ ExecuteQueryNode
    \/ CompletionRaises
    \/ Return

\* a run of an agent that an upload has built; the file may since have been
\* replaced by a later upload that failed
Init ==
    /\ pc = "start"
    /\ question = <<>>
    /\ messages = <<>>
    /\ error = NoError
    /\ result = NoResult
    /\ llm_calls = 0
    /\ window = 0
    /\ db_path = TRUE
    /\ engine = TRUE
    /\ disk \in {"db1", "corrupt"}
    /\ sql_agent = "gsk_form"
    /\ uploaded = "db1"
    /\ env_key = ""
    /\ request = NoRequest
    /\ response = NoResponse
    /\ tool_in = NoTool
    /\ tool_out = <<>>

Next == AgentNext

Spec == Init /\ [][Next]_vars

\* The same run with only the last Window messages of the transcript kept:
\* every node reads messages[-1] alone, so the routing is the same, and a run
\* that never ends is a cycle of finitely many states.  Each node runs as soon
\* as the one before it returns.
InitLoop ==
    /\ pc = "start"
    /\ question = <<>>
    /\ messages = <<>>
    /\ error = NoError
    /\ result = NoResult
    /\ llm_calls = 0
    /\ window = Window
    /\ db_path = TRUE
    /\ engine = TRUE
    /\ disk \in {"db1", "corrupt"}
    /\ sql_agent = "gsk_form"
    /\ uploaded = "db1"
    /\ env_key = ""
    /\ request = NoRequest
    /\ response = NoResponse
    /\ tool_in = NoTool
    /\ tool_out = <<>>

FairSpec == InitLoop /\ [][Next]_vars /\ WF_vars(Next)

(***************************************************************************)
(* Properties of the agent graph.                                          *)
(***************************************************************************)
Ended == pc \in {"done", "returned"}

\* the index of the latest assistant message before position i (0 if none)
PrevAI(msgs, i) ==
    LET before == {j \in 1..(i - 1) : msgs[j].role = "ai"} IN
    IF before = {} THEN 0 ELSE CHOOSE j \in before : \A k \in before : k <= j

CallIds(m) == {m.tool_calls[j].id : j \in 1..Len(m.tool_calls)}

OtherCalls(m) ==
    {j \in 1..Len(m.tool_calls) : m.tool_calls[j].name # "SubmitFinalAnswer"}

\* every tool-result answers a call of the nearest preceding assistant message
ResultsMatchCalls ==
    \A i \in 1..Len(messages) :
        messages[i].role = "tool" =>
            /\ PrevAI(messages, i) # 0
            /\ messages[i].tool_call_id \in CallIds(messages[PrevAI(messages, i)])

\* call j of the latest assistant message has a tool-result after it
Answered(id) ==
    \E i \in (PrevAI(messages, Len(messages) + 1) + 1)..Len(messages) :
        messages[i].role = "tool" /\ messages[i].tool_call_id = id

\* the loop has left a step and calls the model next
CallsModelNext == pc \in {"model_get_schema", "query_gen", "correct_query"}

\* C1: every tool-result carries the id of a tool call of the nearest preceding
\* assistant message, and whenever the loop leaves a step to call the model
\* again every tool call of the latest assistant message has a tool-result with
\* its id: no tool call is left unanswered.  (The claim says the same of the
\* step that ends the run.)
C1_NoCallUnanswered ==
    /\ ResultsMatchCalls
    /\ (CallsModelNext /\ PrevAI(messages, Len(messages) + 1) # 0) =>
           \A id \in CallIds(messages[PrevAI(messages, Len(messages) + 1)]) :
               Answered(id)

\* C2 as claimed: the run is in done exactly when some assistant message of the
\* transcript contains a SubmitFinalAnswer call.
C2_DoneIffSomeFinalAnswer ==
    Ended <=> (\E i \in 1..Len(messages) : HasFinalAnswer(messages[i]))

Routed == pc \in {"query_gen", "correct_query", "done", "returned", "aborted"}

\* C2 amended: once the router has decided, the run is in done exactly when the
\* last message of the transcript is an assistant message with a
\* SubmitFinalAnswer call (a query_gen reply whose tool calls are all
\* SubmitFinalAnswer); in particular it is never in done without one.
C2_DoneIffLastIsFinalAnswer ==
    Routed =>
        /\ Ended <=> HasFinalAnswer(Last(messages))
        /\ Ended => OtherCalls(Last(messages)) = {}

\* a run in done whose transcript holds an earlier SubmitFinalAnswer call that
\* did not end it
C2_Witness ==
    /\ pc = "done"
    /\ \E i \in 1..(Len(messages) - 1) : HasFinalAnswer(messages[i])

\* the query_gen node has run: messages' is messages plus the reply and the
\* corrective messages
GenStep == pc = "query_gen" /\ Len(messages') > Len(messages)

GenReply == messages'[Len(messages) + 1]

\* C3 as claimed: after query_gen the run goes to done if the reply's tool calls
\* include SubmitFinalAnswer, else stays at query_gen if the reply's content
\* begins with "Error:", else goes to correct_query.
C3_RoutingByReply ==
    [][GenStep =>
         /\ SubSeq(messages', 1, Len(messages) + 1) = Append(messages, GenReply)
         /\ pc' = IF HasFinalAnswer(GenReply) THEN "done"
                  ELSE IF StartsWith(GenReply.content, <<"Error:">>) THEN "query_gen"
                  ELSE "correct_query"]_vars

\* C3 amended: a reply with a tool call other than SubmitFinalAnswer keeps the
\* run at query_gen; else a reply with a SubmitFinalAnswer call ends it; else a
\* content beginning with "Error:" keeps it at query_gen; else correct_query.
C3_RoutingWrongToolFirst ==
    [][GenStep =>
         /\ SubSeq(messages', 1, Len(messages) + 1) = Append(messages, GenReply)
         /\ pc' = IF OtherCalls(GenReply) # {} THEN "query_gen"
                  ELSE IF HasFinalAnswer(GenReply) THEN "done"
                  ELSE IF StartsWith(GenReply.content, <<"Error:">>) THEN "query_gen"
                  ELSE "correct_query"]_vars

\* a reply with SubmitFinalAnswer and another tool call was routed to query_gen
C3_Witness ==
    /\ pc = "query_gen"
    /\ PrevAI(messages, Len(messages) + 1) # 0
    /\ LET m == messages[PrevAI(messages, Len(messages) + 1)] IN
       HasFinalAnswer(m) /\ OtherCalls(m) # {} /\ llm_calls >= 2

\* C4: a query_gen reply with a tool call that is not SubmitFinalAnswer gets an
\* error tool-result for that call naming the wrong tool, and the next node is
\* query_gen, never correct_query.
C4_WrongToolRevisitsGen ==
    [][(GenStep /\ OtherCalls(GenReply) # {}) =>
         /\ pc' = "query_gen"
         /\ \A j \in OtherCalls(GenReply) :
               \E i \in (Len(messages) + 2)..Len(messages') :
                  /\ messages'[i].role = "tool"
                  /\ messages'[i].tool_call_id = GenReply.tool_calls[j].id
                  /\ StartsWith(messages'[i].content,
                                <<"Error:", " The wrong tool was called: ",
                                  GenReply.tool_calls[j].name>>)]_vars

\* query_gen was revisited after a reply that called only a wrong tool
C4_Witness ==
    /\ pc = "query_gen"
    /\ Len(messages) >= 2
    /\ messages[Len(messages)].role = "tool"
    /\ StartsWith(messages[Len(messages)].content,
                  <<"Error:", " The wrong tool was called: ">>)
    /\ ~HasFinalAnswer(messages[Len(messages) - 1])

ToolNodes == {"list_tables", "get_schema", "execute_query"}

EdgeFrom(node) ==
    IF node = "list_tables" THEN "model_get_schema" ELSE "query_gen"

\* C5: when a tool invocation of list_tables, get_schema or execute_query
\* raises, the run is not aborted: for every tool call of the last assistant
\* message one tool-result "Error: <repr>..." with its id is appended, and the
\* run follows the node's normal edge.
C5_ToolFaultBecomesMessage ==
    [][(pc \in ToolNodes /\ error' # NoError) =>
         LET tool_calls == Last(messages).tool_calls IN
         /\ pc' = EdgeFrom(pc)
         /\ tool_calls # <<>>
         /\ Len(messages') = Len(messages) + Len(tool_calls)
         /\ SubSeq(messages', 1, Len(messages)) = messages
         /\ \A j \in 1..Len(tool_calls) :
               /\ messages'[Len(messages) + j].role = "tool"
               /\ messages'[Len(messages) + j].tool_call_id = tool_calls[j].id
               /\ StartsWith(messages'[Len(messages) + j].content,
                             <<"Error:", " ", error'>>)]_vars

\* a fault of the execute_query node on two tool calls was fed back
C5_Witness ==
    /\ pc = "query_gen"
    /\ error # NoError
    /\ Len(messages) >= 3
    /\ messages[Len(messages)].role = "tool"
    /\ messages[Len(messages) - 1].role = "tool"
    /\ messages[Len(messages) - 2].role = "ai"
    /\ messages[Len(messages) - 2].tool_calls[1].name = "db_query_tool"

C7_RunTerminates == <>(pc \in {"returned", "aborted"})

(***************************************************************************)
(* The tools invoked directly, on a service in any state an upload can     *)
(* leave it in.                                                            *)
(***************************************************************************)
NamePool == {TA, TB, TAB, TZ}

NameLists == UNION {[1..n -> NamePool] : n \in 1..MaxNames}

\* how a caller separates the names of the list
Separators == {<<",">>, <<",", " ">>, <<" ", ",", " ">>}

CallListTables ==
    /\ tool_in' = [tool |-> "list_tables", arg |-> <<>>, names |-> <<>>]
    /\ tool_out' = <<"return", ListTables>>
    /\ UNCHANGED <<agentVars, serviceVars>>

CallGetSchema ==
    /\ \E names \in NameLists, sep \in Separators :
          LET table_names == Join(names, sep) IN
          /\ tool_in' = [tool |-> "get_schema", arg |-> table_names, names |-> names]
          /\ tool_out' = <<"return", GetSchema(table_names)>>
    /\ UNCHANGED <<agentVars, serviceVars>>

CallDbQueryTool ==
    /\ \E query \in Queries :
          /\ tool_in' = [tool |-> "db_query_tool", arg |-> query, names |-> <<>>]
          /\ tool_out' = DbQueryTool(query)
    /\ UNCHANGED <<agentVars, serviceVars>>

ToolNext ==
    \/ CallListTables
    \/ CallGetSchema
    \/ CallDbQueryTool

\* before any upload; after an upload of a database; after an upload of a file
\* that is no database
InitTool ==
    /\ pc = "idle"
    /\ question = <<>>
    /\ messages = <<>>
    /\ error = NoError
    /\ result = NoResult
    /\ llm_calls = 0
    /\ window = 0
    /\ \/ db_path = FALSE /\ engine = FALSE /\ disk = "none"
       \/ db_path = TRUE /\ engine = TRUE /\ disk \in DbNames \cup {"corrupt"}
    /\ sql_agent = "none"
    /\ uploaded = "none"
    /\ env_key = ""
    /\ request = NoRequest
    /\ response = NoResponse
    /\ tool_in = NoTool
    /\ tool_out = <<>>

ToolSpec == InitTool /\ [][ToolNext]_vars

\* the tokens of s before the first occurrence of tok (all of s if none)
RECURSIVE Before(_, _)
Before(s, tok) ==
    IF s = <<>> \/ Head(s) = tok THEN <<>> ELSE <<Head(s)>> \o Before(Tail(s), tok)

\* the tokens of s after the first occurrence of tok (none if none)
RECURSIVE After(_, _)
After(s, tok) ==
    IF s = <<>> THEN <<>> ELSE IF Head(s) = tok THEN Tail(s) ELSE After(Tail(s), tok)

\* the parts of s that tok ends
RECURSIVE Terminated(_, _)
Terminated(s, tok) ==
    IF s = <<>> THEN <<>>
    ELSE <<Before(s, tok)>> \o Terminated(After(s, tok), tok)

\* the cells of a line: the tokens between its tabs
RECURSIVE Cells(_)
Cells(line) ==
    IF "\t" \notin {line[i] : i \in 1..Len(line)} THEN <<line>>
    ELSE <<Before(line, "\t")>> \o Cells(After(line, "\t"))

\* the CREATE TABLE blocks and "not found" lines of a get_schema text, in order
RECURSIVE Entries(_)
Entries(s) ==
    IF s = <<>> THEN <<>>
    ELSE IF Head(s) = "\nCREATE TABLE "
    THEN <<<<"create", Before(Tail(s), " (\n")>>>> \o Entries(After(s, "*/\n"))
    ELSE IF Head(s) = "Table '"
    THEN <<<<"not found", Before(Tail(s), "' not found.\n")>>>>
         \o Entries(After(s, "' not found.\n"))
    ELSE <<<<"other", <<Head(s)>>>>>> \o Entries(Tail(s))

\* what the Query Executor reports for the query of the last invocation
Reported == execute_query(tool_in.arg)[2]

\* C8: db_query_tool never raises; when the executor reports an error with
\* message M it returns exactly "Error: " + M + ". Please rewrite your query
\* and try again."; when the executor returns rows it returns a header line and
\* then one tab-separated line per row.
C8_QueryToolNeverRaises ==
    tool_in.tool = "db_query_tool" =>
        /\ tool_out[1] = "return"
        /\ Reported.status = "error" =>
              tool_out[2] = <<"Error:", " ">> \o Reported.message
                            \o <<". Please rewrite your query and try again.">>
        /\ (Reported.status = "success" /\ Reported.results # <<>>) =>
              LET lines == Terminated(tool_out[2], "\n")
                  rows  == Reported.results
              IN  /\ Len(lines) = Len(rows) + 1
                  /\ Cells(lines[1]) = [j \in 1..Len(rows[1]) |-> <<rows[1][j][1]>>]
                  /\ \A i \in 1..Len(rows) :
                        Cells(lines[i + 1]) =
                            [j \in 1..Len(rows[i]) |-> <<Str(rows[i][j][2])>>]

\* sqlite rejected the query of a connected database and the tool returned the
\* corrective text
C8_Witness ==
    /\ tool_in.tool = "db_query_tool"
    /\ db_path
    /\ tool_in.arg = <<"SELEC">>
    /\ tool_out = <<"return", <<"Error:", " ", "near \"", "SELEC", "\": syntax error",
                                ". Please rewrite your query and try again.">>>>

\* what the claim expects of get_schema for a list of names
ExpectedEntries(names) ==
    [i \in 1..Len(names) |->
        <<IF names[i] \in DOMAIN Databases[disk] THEN "create" ELSE "not found",
          names[i]>>]

\* C9: while the schema is readable, the text get_schema returns for a
\* comma-separated list of names holds, in input order, one CREATE TABLE block
\* for each name that is a table and one "Table '<name>' not found." line for
\* each name that is not, and nothing else.
C9_SchemaPerName ==
    (tool_in.tool = "get_schema" /\ engine /\ Readable(disk)) =>
        /\ tool_out[1] = "return"
        /\ Entries(tool_out[2]) = ExpectedEntries(tool_in.names)

\* an unknown name before a known one: both are reported
C9_Witness ==
    /\ tool_in.tool = "get_schema"
    /\ disk = "db1"
    /\ tool_in.arg = <<"z", ",", " ", "a">>
    /\ Entries(tool_out[2]) = <<<<"not found", TZ>>, <<"create", TA>>>>

(***************************************************************************)
(* main.py: the HTTP handlers.  A response is [status_code, detail, body]; *)
(* str() of an HTTPException is <<status code, ": ", detail>>.             *)
(***************************************************************************)
Filenames == {<<"shop", ".db">>, <<"shop", ".txt">>, <<"shop.db", ".bak">>}

Uploads == DbNames \cup {"corrupt"}

ApiKeys == {"", "gsk_form"}

\* filename.endswith('.db')
EndsWithDb(filename) == filename # <<>> /\ Last(filename) = ".db"

HTTPException(status_code, detail) ==
    [status_code |-> status_code, detail |-> detail, body |-> <<>>]

StrHTTPException(e) ==
    <<IF e.status_code = 400 THEN "400" ELSE "500", ": ">> \o e.detail

\* the except clause of upload_database: every exception of the try block,
\* HTTPException included, is raised again as a 500
UploadExcept(e) ==
    HTTPException(500, <<"Error uploading database: ">> \o StrHTTPException(e))

\* validate_groq_api_key: the detail of its HTTPException
MissingKeyDetail ==
    "No GROQ API key provided. Please either set the GROQ_API_KEY environment variable or provide it when initializing the agent."

\* validate_groq_api_key: the key used, "" when none is provided
ValidKey(api_key) == IF api_key # "" THEN api_key ELSE env_key

\* POST /upload-database/
UploadDatabase ==
    /\ pc = "idle"
    /\ \E filename \in Filenames, content \in Uploads, api_key \in ApiKeys :
          /\ request' = [endpoint |-> "upload", filename |-> filename,
                         content |-> content, api_key |-> api_key]
          /\ IF ~EndsWithDb(filename)
             THEN /\ response' = UploadExcept(HTTPException(400,
                                    <<"Only SQLite (.db) files are supported">>))
                  /\ UNCHANGED <<db_path, engine, disk, sql_agent, uploaded>>
             ELSE \* save_uploaded_db
                  /\ db_path' = TRUE
                  /\ disk' = content
                  /\ engine' = TRUE
                  /\ IF ~Readable(content)
                     THEN /\ response' = UploadExcept(HTTPException(500,
                                            <<"file is not a database">>))
                          /\ UNCHANGED <<sql_agent, uploaded>>
                     ELSE IF ValidKey(api_key) = ""
                     THEN /\ response' = UploadExcept(HTTPException(400,
                                            <<MissingKeyDetail>>))
                          /\ UNCHANGED <<sql_agent, uploaded>>
                     ELSE /\ sql_agent' = ValidKey(api_key)
                          /\ uploaded' = content
                          /\ response' = [status_code |-> 200,
                                          detail |-> <<"Database uploaded and agent initialized">>,
                                          body |-> TableNames(content)]
    /\ UNCHANGED <<agentVars, env_key, toolVars>>

\* what SQLAgent.run does, seen from its caller: it returns a success result
\* with an answer, or a completion call raises
RunOutcomes ==
    {<<"return", <<"success", a>>>> : a \in Answers}
    \cup {<<"raise", <<"APIConnectionError">>>>}

\* the guard of query written like the guard of get_schema
NoAgentByPath == ~db_path

\* query: if not sql_agent
NoAgent == sql_agent = "none"

\* POST /query/; result records what the call of sql_agent.run produced, and
\* stays NoResult when the handler does not call it
Query ==
    /\ pc = "idle"
    /\ request' = [endpoint |-> "query", filename |-> <<>>, content |-> "none",
                   api_key |-> ""]
    /\ IF NoAgent
       THEN /\ response' = HTTPException(400,
                   <<"No database has been uploaded. Please upload a database first.">>)
            /\ result' = NoResult
       ELSE \E run \in RunOutcomes :
               /\ result' = [status |-> IF run[1] = "raise" THEN "raised" ELSE run[2][1],
                             answer |-> IF run[1] = "raise" THEN run[2] ELSE <<run[2][2]>>]
               /\ response' = IF run[1] = "raise"
                               THEN HTTPException(500,
                                       <<"Error querying database: ">> \o run[2])
                               ELSE [status_code |-> 200, detail |-> <<>>, body |-> run[2]]
    /\ UNCHANGED <<pc, question, messages, error, llm_calls, window,
                   db_path, engine, disk, sql_agent, uploaded, env_key, toolVars>>

\* GET /schema/
GetSchemaEndpoint ==
    /\ pc = "idle"
    /\ request' = [endpoint |-> "schema", filename |-> <<>>, content |-> "none",
                   api_key |-> ""]
    /\ IF ~db_path
       THEN response' = HTTPException(400,
               <<"No database has been uploaded. Please upload a database first.">>)
       ELSE LET res == get_schema_info IN
            IF res.status # "success"
            THEN response' = HTTPException(500, res.message)
            ELSE response' = [status_code |-> 200, detail |-> <<>>,
                              body |-> TableNames(disk)]
    /\ UNCHANGED <<agentVars, db_path, engine, disk, sql_agent, uploaded, env_key,
                   toolVars>>

HttpNext ==
    \/ UploadDatabase
    \/ Query
    \/ GetSchemaEndpoint

\* the service as the module is loaded: no database, no agent
InitHttp ==
    /\ pc = "idle"
    /\ question = <<>>
    /\ messages = <<>>
    /\ error = NoError
    /\ result = NoResult
    /\ llm_calls = 0
    /\ window = 0
    /\ db_path = FALSE
    /\ engine = FALSE
    /\ disk = "none"
    /\ sql_agent = "none"
    /\ uploaded = "none"
    /\ env_key \in {"", "gsk_env"}
    /\ request = NoRequest
    /\ response = NoResponse
    /\ tool_in = NoTool
    /\ tool_out = <<>>

HttpSpec == InitHttp /\ [][HttpNext]_vars

\* C10: an upload whose file name does not end in ".db" is answered with status
\* 400 and the detail "Only SQLite (.db) files are supported".
C10_BadExtensionIs400 ==
    (request.endpoint = "upload" /\ ~EndsWithDb(request.filename)) =>
        /\ response.status_code = 400
        /\ response.detail = <<"Only SQLite (.db) files are supported">>

\* the set of the elements of a sequence
Range(s) == {s[i] : i \in 1..Len(s)}

\* C11: once an upload of a database whose tables are S has been answered with
\* success, GET /schema/ answers 200 with the names of exactly the tables S,
\* whatever requests other than a further successful upload came in between.
C11_SchemaOfLastUpload ==
    (request.endpoint = "schema" /\ uploaded # "none") =>
        /\ response.status_code = 200
        /\ Range(response.body) = DOMAIN Databases[uploaded]

\* C12: no agent run starts before an upload has been answered with success:
\* while none has, POST /query/ is answered 400 "No database has been
\* uploaded. Please upload a database first." and run is not called; an agent
\* exists only with a credential and after such an upload; an upload of a
\* database without any credential is itself answered with an error whose
\* detail holds the missing-key text.
C12_NoRunBeforeUpload ==
    /\ (request.endpoint = "query" /\ uploaded = "none") =>
          /\ result = NoResult
          /\ response = HTTPException(400,
                 <<"No database has been uploaded. Please upload a database first.">>)
    /\ result # NoResult => uploaded # "none"
    /\ sql_agent # "none" => (uploaded # "none" /\ sql_agent # "")
    /\ (/\ request.endpoint = "upload"
        /\ EndsWithDb(request.filename)
        /\ Readable(request.content)
        /\ request.api_key = ""
        /\ env_key = "") =>
          /\ response.status_code >= 400
          /\ MissingKeyDetail \in Range(response.detail)

\* a query after an upload of a database that failed for want of a credential:
\* the file is in place, no agent is, and the query is turned away
C12_Witness ==
    /\ request.endpoint = "query"
    /\ db_path
    /\ Readable(disk)
    /\ uploaded = "none"
    /\ response.status_code = 400
    /\ result = NoResult

\* the text a occurs in the text b
IsInfix(a, b) ==
    \E i \in 0..(Len(b) - Len(a)) : SubSeq(b, i + 1, i + Len(a)) = a

\* the messages M that the Schema Inspector and the Query Executor report with
\* status error on the service as it is
FaultTexts ==
    (IF get_schema_info.status = "error" THEN {get_schema_info.message} ELSE {})
    \cup {execute_query(q)[2].message :
             q \in {x \in Queries : execute_query(x)[2].status = "error"}}

\* C13: no response of /query/ or /schema/ carries, in its detail or its body,
\* the message M of a status-error report of the Schema Inspector or the Query
\* Executor.
C13_NoFaultTextInResponse ==
    request.endpoint \in {"query", "schema"} =>
        \A M \in FaultTexts :
            /\ ~IsInfix(M, response.detail)
            /\ ~IsInfix(M, response.body)

(***************************************************************************)
(* Properties of the transcript and of the order of the nodes.             *)
(***************************************************************************)
IsPrefix(s, t) == Len(s) <= Len(t) /\ SubSeq(t, 1, Len(s)) = s

\* no run is in progress
BetweenRuns == pc \in {"start", "returned", "aborted"}

\* C15: a run starts with a transcript that holds its question and nothing
\* else, so nothing of an earlier run of the same agent; every step of the run
\* leaves the transcript it found as a prefix of the new one; the transcript
\* starts with the user's question throughout.
C15_TranscriptAppendOnly ==
    [][/\ BetweenRuns => messages' = <<HumanMessage(question')>>
       /\ ~BetweenRuns => IsPrefix(messages, messages')
       /\ messages'[1] = HumanMessage(question')]_vars

\* a run that follows one which a tool fault and then a failed completion call
\* ended: its transcript holds its own two messages only
C15_Witness ==
    /\ pc = "list_tables"
    /\ error \in Faults
    /\ messages = <<HumanMessage(question)>> \o first_tool_call

\* the four nodes that open a run
Opening == {"first_tool_call", "list_tables", "model_get_schema", "get_schema"}

\* C16: whatever the model replies, a run starts with first_tool_call (a
\* synthetic assistant message with one list_tables call, no completion call),
\* then list_tables (its tool result), then model_get_schema (the one
\* completion call that chooses tables), then get_schema, and then the first
\* query_gen; once past them the run never enters one of these four nodes again.
C16_FixedPrefix ==
    [][/\ pc = "get_schema" => (pc' = "query_gen" /\ llm_calls' = 1)
       /\ BetweenRuns => (pc' = "first_tool_call" /\ llm_calls' = 0)
       /\ pc = "first_tool_call" =>
             /\ pc' = "list_tables"
             /\ llm_calls' = 0
             /\ messages' = messages \o
                   <<AIMessage(<<"">>, <<[name |-> "list_tables", args |-> <<>>,
                                          id |-> ToolInit]>>)>>
       /\ pc = "list_tables" =>
             /\ pc' = "model_get_schema"
             /\ llm_calls' = 0
             /\ Len(messages') = Len(messages) + 1
             /\ Last(messages').role = "tool"
             /\ Last(messages').tool_call_id = ToolInit
       /\ pc = "model_get_schema" =>
             \/ pc' = "aborted" /\ messages' = messages
             \/ /\ pc' = "get_schema"
                /\ llm_calls' = 1
                /\ Len(messages') = Len(messages) + 1
                /\ Last(messages').role = "ai"
       /\ pc \in {"query_gen", "correct_query", "execute_query", "done"} =>
             pc' \notin Opening]_vars

\* the first query_gen of a run whose model chose no table: the four opening
\* nodes have run once each, get_schema without appending anything
C16_Witness ==
    /\ pc = "query_gen"
    /\ llm_calls = 1
    /\ Len(messages) = 4
    /\ messages[2].tool_calls[1].name = "list_tables"
    /\ messages[3].role = "tool"
    /\ messages[4].role = "ai"
    /\ messages[4].tool_calls = <<>>

\* the messages that a step appends
Appended == SubSeq(messages', Len(messages) + 1, Len(messages'))

\* a header line and at least one row line
IsRowsText(c) ==
    /\ c # <<>>
    /\ Last(c) = "\n"
    /\ Len(Terminated(c, "\n")) >= 2

\* the answer to a call that was not run: the node does not have the tool,
\* query_gen_node rejects the call, or the fallback reports a fault
IsRejection(c) ==
    /\ Len(c) >= 2
    /\ c[1] = "Error:"
    /\ \/ c[2] = " The wrong tool was called: "
       \/ Len(c) = 4 /\ c[4] \in {" is not a valid tool", "\n please fix your mistakes."}

\* the tool calls of the transcript msgs that have the id
CallsWithId(msgs, id) ==
    UNION {{msgs[i].tool_calls[j] : j \in {k \in 1..Len(msgs[i].tool_calls) :
                                               msgs[i].tool_calls[k].id = id}} :
           i \in 1..Len(msgs)}

RECURSIVE SampleSections(_)
SampleSections(s) ==
    IF " rows from table:\n" \notin Range(s) THEN <<>>
    ELSE LET before == Before(s, " rows from table:\n")
             rest   == After(s, " rows from table:\n")
         IN  <<[announced |-> Last(before),
                lines     |-> Terminated(Before(rest, "*/\n"), "\n")]>>
             \o SampleSections(After(rest, "*/\n"))

\* the data rows of a sample section: its lines but the line of column names
DataRows(section) == IF section.lines = <<>> THEN 0 ELSE Len(section.lines) - 1

\* the names of the CREATE TABLE blocks of a get_schema text, in order
CreatedTables(s) ==
    LET created == SelectSeq(Entries(s), LAMBDA e : e[1] = "create")
    IN  [k \in 1..Len(created) |-> created[k][2]]

\* C18: in every block that get_schema renders, the number of data rows is at
\* most the count that the block's header announces ("3 rows from table:") and
\* equals the number of rows that the Schema Inspector keeps for the table.
C18_SampleRowsWithinHeader ==
    (tool_in.tool = "get_schema" /\ engine /\ Readable(disk)) =>
        LET sections == SampleSections(tool_out[2])
            tables   == CreatedTables(tool_out[2])
        IN  /\ Len(sections) = Len(tables)
            /\ \A k \in 1..Len(sections) :
                  /\ DataRows(sections[k]) =
                        Len(get_schema_info.schema[tables[k]].sample_data)
                  /\ \E n \in DOMAIN Digits :
                        /\ Digits[n] = sections[k].announced
                        /\ DataRows(sections[k]) <= n

(***************************************************************************)
(* Uploads that fail.                                                      *)
(***************************************************************************)
\* C19: an upload that is answered with an error leaves the database file, the
\* DatabaseManager and the agent as they were, so that /schema/ and /query/
\* answer as before it, and a database is in place for /schema/ exactly when
\* an agent is in place for /query/.
C19_FailedUploadChangesNothing ==
    [][(request'.endpoint = "upload" /\ response'.status_code # 200) =>
          /\ UNCHANGED <<db_path, engine, disk, sql_agent>>
          /\ db_path' <=> (sql_agent' # "none")]_vars

====
